---- MODULE Spec2Model ----
(***************************************************************************)
(* The custommsg hook of the LSPS1 buyer plugin (src/src/main.rs):         *)
(* subscribe_to_custom_message, the PluginState it shares with the         *)
(* issuance command, and the validate-and-pay collaborator it calls.       *)
(***************************************************************************)
EXTENDS Integers, Sequences, FiniteSets, TLC

(* ------------------------------ bounds -------------------------------- *)

\* Number of hook invocations the host starts (they may run concurrently).
NumInv == 2

Invs == 1..NumInv

\* The order ids the issuance command registers and the (opaque) terms it
\* requests.
Ids == {"abc"}
Terms == {"size100000", "size200000"}

(* ------------------------------ constants ------------------------------ *)

\* constants::MESSAGE_TYPE, the registered LSPS1 transport type.
MESSAGE_TYPE == 1

\* constants::LSPS1_CREATE_ORDER_METHOD / LSPS1_GET_ORDER_METHOD.
LSPS1_CREATE_ORDER_METHOD == "lsps1.create_order"
LSPS1_GET_ORDER_METHOD == "lsps1.get_order"

\* A method of the protocol that is neither: the command issues it before
\* it creates an order.
LSPS1_GET_INFO_METHOD == "lsps1.get_info"

\* The methods the command records as the last one issued.
Methods == {LSPS1_GET_INFO_METHOD, LSPS1_CREATE_ORDER_METHOD, LSPS1_GET_ORDER_METHOD}

\* The one key of PluginState.method the hook reads.
MethodKey == "method"

(* --------------------------- the incoming event ------------------------ *)

\* The text of "payload" is kept in two parts: head, its first four
\* characters (fewer when the text is shorter), and tail, what follows them.
\* The tail is the hex text of the JSON body; it is described by what it
\* decodes to.
\*   kind "empty"  : no character follows the head
\*   kind "badhex" : the rest holds a non-hex character or an odd count
\*   kind "json"   : the rest is the hex text of a body; getinfo / order say
\*                   which of the two response shapes the body has, id and
\*                   terms are the fields of an order response.
EmptyTail == [kind |-> "empty", getinfo |-> FALSE, order |-> FALSE, id |-> "", terms |-> ""]
BadHexTail == [kind |-> "badhex", getinfo |-> FALSE, order |-> FALSE, id |-> "", terms |-> ""]
NotJsonTail == [kind |-> "json", getinfo |-> FALSE, order |-> FALSE, id |-> "", terms |-> ""]
GetInfoTail == [kind |-> "json", getinfo |-> TRUE, order |-> FALSE, id |-> "", terms |-> ""]

OrderTail(id, terms, alsoGetInfo) ==
    [kind |-> "json", getinfo |-> alsoGetInfo, order |-> TRUE, id |-> id, terms |-> terms]

\* The order responses a peer sends: the registered id with either terms
\* (one of them in a body that has the get-info shape as well) and an id
\* that no command registered.
OrderTails ==
    { OrderTail("abc", "size100000", FALSE),
      OrderTail("abc", "size200000", TRUE),
      OrderTail("xyz", "size100000", FALSE) }

NoPayload == [has_payload |-> FALSE, head |-> <<>>, tail |-> EmptyTail]

Payload(h, t) == [has_payload |-> TRUE, head |-> h, tail |-> t]

\* The events the host delivers: no payload; payloads of no, half a, one
\* byte; a non-hex character in the type or after it; another type (the
\* registered one with its bytes swapped) before a well-formed order
\* response; and the registered type before each kind of body.
Events ==
    {NoPayload}
        \cup {Payload(h, EmptyTail) : h \in {<<>>, <<"0">>, <<"0", "0">>}}
        \cup {Payload(<<"0", "0", "g", "1">>, OrderTail("abc", "size100000", FALSE)),
              Payload(<<"0", "1", "0", "0">>, OrderTail("abc", "size100000", FALSE))}
        \cup {Payload(<<"0", "0", "0", "1">>, t) :
                t \in OrderTails \cup {BadHexTail, NotJsonTail, GetInfoTail}}

\* Every text of at most four characters over a few hex digits (of both
\* cases) and a character that is none, and every such text of four
\* characters before no body, a body that is not hex and an order response.
Chars == {"0", "1", "A", "g"}

HeadsOfLen(n) == [1..n -> Chars]

FramerEvents ==
    {NoPayload}
        \cup {Payload(h, EmptyTail) : h \in UNION {HeadsOfLen(n) : n \in 0..3}}
        \cup {Payload(h, t) :
                h \in HeadsOfLen(4),
                t \in {EmptyTail, BadHexTail, OrderTail("abc", "size100000", FALSE)}}

(* ------------------------------ hex::decode ---------------------------- *)

HexChars == {"0", "1", "2", "9", "a", "A", "f", "F"}

HexVal(c) ==
    CASE c = "0" -> 0
      [] c = "1" -> 1
      [] c = "2" -> 2
      [] c = "9" -> 9
      [] c \in {"a", "A"} -> 10
      [] c \in {"f", "F"} -> 15
      [] OTHER -> 0

\* hex::decode fails on an odd number of characters and on a character that
\* is no hex digit.
HexDecodeOk(p) ==
    /\ Len(p.head) % 2 = 0
    /\ \A k \in 1..Len(p.head) : p.head[k] \in HexChars
    /\ p.tail.kind # "badhex"

\* The bytes of the head: one byte per pair of characters, high nibble first.
HeadBytes(p) ==
    [k \in 1..(Len(p.head) \div 2) |->
        16 * HexVal(p.head[2 * k - 1]) + HexVal(p.head[2 * k])]

\* The number of bytes after the head's (a body holds at least one byte).
TailLen(p) == IF p.tail.kind = "empty" THEN 0 ELSE 1

\* bytes.len()
BytesLen(p) == Len(HeadBytes(p)) + TailLen(p)

\* The two bytes read low byte first.
from_le_bytes(b0, b1) == (256 * b1 + b0) % 65536

\* u16::from_be_bytes([bytes[0], bytes[1]])
from_be_bytes(b0, b1) == (256 * b0 + b1) % 65536

message_type(p) == from_be_bytes(HeadBytes(p)[1], HeadBytes(p)[2])

(* ------------------------------ the framer ----------------------------- *)

\* The framer with the error of hex::decode ignored.
PassThroughIgnoringHexError(p) ==
    \/ ~p.has_payload
    \/ BytesLen(p) < 2
    \/ message_type(p) # MESSAGE_TYPE

\* The framer without the test of the type (lines 93-95).
PassThroughAnyType(p) ==
    \/ ~p.has_payload
    \/ ~HexDecodeOk(p)
    \/ BytesLen(p) < 2

\* Lines 69-95: TRUE when the hook returns "continue" before it reads the
\* body (no payload, hex::decode fails, fewer than 2 bytes, another type).
PassThrough(p) ==
    \/ ~p.has_payload
    \/ ~HexDecodeOk(p)
    \/ BytesLen(p) < 2
    \/ message_type(p) # MESSAGE_TYPE

(* ------------------------------ the decoders --------------------------- *)

\* serde_json::from_slice::<GetInfoJsonRpcResponse>(json_bytes).is_ok()
DecodesAsGetInfo(p) == p.tail.kind = "json" /\ p.tail.getinfo

\* serde_json::from_slice::<CreateOrderJsonRpcResponse>(json_bytes).is_ok()
DecodesAsOrder(p) == p.tail.kind = "json" /\ p.tail.order

(* ------------------------------ the state ------------------------------ *)

VARIABLES
    data,        \* PluginState.data: order id -> the terms requested
    method,      \* PluginState.method: "method" -> the last method issued
    dataLock,    \* the invocations that hold the lock of data
    methodLock,  \* the invocations that hold the lock of method
    hook         \* hook[i]: invocation i of subscribe_to_custom_message

vars == <<data, method, dataLock, methodLock, hook>>

\* An invocation: where it is (pc), its argument (v), the order it found
\* (get_order, a set of at most one terms), what it returned (result), and
\* what it did: RPC connections attempted (rpc) and what came of them
\* (client), JSON decodes attempted (decodes) and what the get-info decode
\* gave (getinfo), registry lookups (lookups), payment calls (pays), the
\* outcome of validate_and_pay it logged (res).
Idle ==
    [pc |-> "idle", v |-> NoPayload, get_order |-> {}, result |-> "none",
     rpc |-> 0, client |-> "none", decodes |-> 0, getinfo |-> "none",
     lookups |-> 0, pays |-> 0, res |-> "none"]

Init ==
    /\ data = << >>
    /\ method = << >>
    /\ dataLock = {}
    /\ methodLock = {}
    /\ hook = [i \in Invs |-> Idle]

\* method.get(&"method".to_string()) == Some(&name.to_string())
MethodIs(name) == MethodKey \in DOMAIN method /\ method[MethodKey] = name

\* The lookup with the key ignored: whatever the registry holds.
DataGetAnyKey(id) == {data[k] : k \in DOMAIN data}

\* data.get(&id): the set holding the terms stored under id, if any.
DataGet(id) == IF id \in DOMAIN data THEN {data[id]} ELSE {}

\* The gate of line 130 with its test inverted.
NotCreateOrderInverted == MethodIs(LSPS1_CREATE_ORDER_METHOD)

\* The gate of line 130 closed for get-order alone.
NotCreateOrderOnlyGetOrder == MethodIs(LSPS1_GET_ORDER_METHOD)

\* The gate of line 130 open under get-order as well.
NotCreateOrderNorGetOrder ==
    ~(MethodIs(LSPS1_CREATE_ORDER_METHOD) \/ MethodIs(LSPS1_GET_ORDER_METHOD))

\* The gate of line 130 removed: every order response goes on to the lookup.
NotCreateOrderGateRemoved == FALSE

\* Line 130: the last method issued is not create-order.
NotCreateOrder == ~MethodIs(LSPS1_CREATE_ORDER_METHOD)

\* A return of invocation i: the guards of both locks are dropped.
Return(i, h) ==
    /\ hook' = [hook EXCEPT ![i] = [h EXCEPT !.pc = "done"]]
    /\ dataLock' = dataLock \ {i}
    /\ methodLock' = methodLock \ {i}
    /\ UNCHANGED <<data, method>>

\* A step of invocation i that keeps running.
Goto(i, h, pc) ==
    /\ hook' = [hook EXCEPT ![i] = [h EXCEPT !.pc = pc]]
    /\ UNCHANGED <<data, method, dataLock, methodLock>>

(* ------------------------------ the hook ------------------------------- *)

\* The host calls the hook with event e.
Deliver(i, e) ==
    /\ hook[i].pc = "idle"
    /\ Goto(i, [hook[i] EXCEPT !.v = e], "lock_data")

\* The framer run before the locks are taken: a message it passes through
\* is returned without either lock.
LockDataFramingFirst(i) ==
    /\ hook[i].pc = "lock_data"
    /\ IF PassThrough(hook[i].v)
         THEN Return(i, [hook[i] EXCEPT !.result = "continue"])
         ELSE /\ dataLock = {}
              /\ dataLock' = {i}
              /\ hook' = [hook EXCEPT ![i].pc = "lock_method"]
              /\ UNCHANGED <<data, method, methodLock>>

\* The lock of data taken without waiting for its holder.
LockDataNoWait(i) ==
    /\ hook[i].pc = "lock_data"
    /\ dataLock' = dataLock \cup {i}
    /\ hook' = [hook EXCEPT ![i].pc = "lock_method"]
    /\ UNCHANGED <<data, method, methodLock>>

\* Line 66: state_ref.data.lock().await
LockData(i) ==
    /\ hook[i].pc = "lock_data"
    /\ dataLock = {}
    /\ dataLock' = {i}
    /\ hook' = [hook EXCEPT ![i].pc = "lock_method"]
    /\ UNCHANGED <<data, method, methodLock>>

\* Line 67: state_ref.method.lock().await
LockMethod(i) ==
    /\ hook[i].pc = "lock_method"
    /\ methodLock = {}
    /\ methodLock' = {i}
    /\ hook' = [hook EXCEPT ![i].pc = "frame"]
    /\ UNCHANGED <<data, method, dataLock>>

\* The framer with a missing payload turned into an error of the hook.
FrameMissingPayloadIsError(i) ==
    /\ hook[i].pc = "frame"
    /\ IF ~hook[i].v.has_payload
         THEN Return(i, [hook[i] EXCEPT !.result = "error"])
         ELSE IF PassThrough(hook[i].v)
         THEN Return(i, [hook[i] EXCEPT !.result = "continue"])
         ELSE Goto(i, hook[i], "connect")

\* Lines 69-95: the framer.
Frame(i) ==
    /\ hook[i].pc = "frame"
    /\ IF PassThrough(hook[i].v)
         THEN Return(i, [hook[i] EXCEPT !.result = "continue"])
         ELSE Goto(i, hook[i], "connect")

\* The connection error returned with the guards of both locks leaked.
ConnectLeaking(i, ok) ==
    /\ hook[i].pc = "connect"
    /\ IF ok
         THEN Goto(i, [hook[i] EXCEPT !.rpc = @ + 1, !.client = "connected"], "classify")
         ELSE Goto(i, [hook[i] EXCEPT !.rpc = @ + 1, !.client = "failed",
                                      !.result = "error"], "done")

\* Lines 97-99: ClnRpc::new(socket_path).await?
Connect(i, ok) ==
    /\ hook[i].pc = "connect"
    /\ IF ok
         THEN Goto(i, [hook[i] EXCEPT !.rpc = @ + 1, !.client = "connected"], "classify")
         ELSE Return(i, [hook[i] EXCEPT !.rpc = @ + 1, !.client = "failed",
                                        !.result = "error"])

\* The classifier with a guard against paying an order twice: a response
\* whose id another invocation has paid is dropped.
ClassifyDedup(i) ==
    LET h == [hook[i] EXCEPT !.decodes = @ + 3,
                             !.getinfo = IF DecodesAsGetInfo(hook[i].v) THEN "ok" ELSE "err"]
        p == hook[i].v
    IN  /\ hook[i].pc = "classify"
        /\ IF ~DecodesAsOrder(p)
             THEN Return(i, [h EXCEPT !.result = "continue"])
             ELSE IF NotCreateOrder
             THEN Return(i, [h EXCEPT !.result = "continue"])
             ELSE IF \/ DataGet(p.tail.id) = {}
                     \/ \E j \in Invs \ {i} :
                            hook[j].pays > 0 /\ hook[j].v.tail.id = p.tail.id
             THEN Return(i, [h EXCEPT !.lookups = @ + 1, !.result = "continue"])
             ELSE Goto(i, [h EXCEPT !.lookups = @ + 1, !.get_order = DataGet(p.tail.id)],
                       "validate_and_pay")

\* The classifier with the two probes made exclusive: a body that decodes
\* as a get-info response is not tried as an order response.
ClassifyExclusive(i) ==
    LET h == [hook[i] EXCEPT !.decodes = @ + 3,
                             !.getinfo = IF DecodesAsGetInfo(hook[i].v) THEN "ok" ELSE "err"]
        p == hook[i].v
    IN  /\ hook[i].pc = "classify"
        /\ IF DecodesAsGetInfo(p)
             THEN Return(i, [h EXCEPT !.decodes = 1, !.result = "continue"])
             ELSE IF ~DecodesAsOrder(p)
             THEN Return(i, [h EXCEPT !.result = "continue"])
             ELSE IF NotCreateOrder
             THEN Return(i, [h EXCEPT !.result = "continue"])
             ELSE IF DataGet(p.tail.id) = {}
             THEN Return(i, [h EXCEPT !.lookups = @ + 1, !.result = "continue"])
             ELSE Goto(i, [h EXCEPT !.lookups = @ + 1, !.get_order = DataGet(p.tail.id)],
                       "validate_and_pay")

\* The classifier with the guards dropped once the order has been read out
\* of the registry: validation and payment run without the locks.
ClassifyReleasing(i) ==
    LET h == [hook[i] EXCEPT !.decodes = @ + 3,
                             !.getinfo = IF DecodesAsGetInfo(hook[i].v) THEN "ok" ELSE "err"]
        p == hook[i].v
    IN  /\ hook[i].pc = "classify"
        /\ IF ~DecodesAsOrder(p)
             THEN Return(i, [h EXCEPT !.result = "continue"])
             ELSE IF NotCreateOrder
             THEN Return(i, [h EXCEPT !.result = "continue"])
             ELSE IF DataGet(p.tail.id) = {}
             THEN Return(i, [h EXCEPT !.lookups = @ + 1, !.result = "continue"])
             ELSE /\ hook' = [hook EXCEPT ![i] =
                                [h EXCEPT !.lookups = @ + 1,
                                          !.get_order = DataGet(p.tail.id),
                                          !.pc = "validate_and_pay"]]
                  /\ dataLock' = dataLock \ {i}
                  /\ methodLock' = methodLock \ {i}
                  /\ UNCHANGED <<data, method>>

\* Lines 101-138: the three decodes, the method gate and the lookup. (The
\* second decode, lines 116-125, only logs, and only under get-order.)
Classify(i) ==
    LET h == [hook[i] EXCEPT !.decodes = @ + 3,
                             !.getinfo = IF DecodesAsGetInfo(hook[i].v) THEN "ok" ELSE "err"]
        p == hook[i].v
    IN  /\ hook[i].pc = "classify"
        /\ IF ~DecodesAsOrder(p)
             THEN Return(i, [h EXCEPT !.result = "continue"])
             ELSE IF NotCreateOrder
             THEN Return(i, [h EXCEPT !.result = "continue"])
             ELSE IF DataGet(p.tail.id) = {}
             THEN Return(i, [h EXCEPT !.lookups = @ + 1, !.result = "continue"])
             ELSE Goto(i, [h EXCEPT !.lookups = @ + 1, !.get_order = DataGet(p.tail.id)],
                       "validate_and_pay")

(* --------------------------- validate and pay -------------------------- *)

\* Lsps1ValidateAndPay: the terms of the response are those requested.
Validates(order, p) == p.tail.terms = order

\* Lines 139-145, first half of validate_and_pay(): validation. A response
\* that fails it is not paid; one that passes it is paid through the RPC
\* client, and the payment call is then in flight.
Validate(i) ==
    /\ hook[i].pc = "validate_and_pay"
    /\ IF \A order \in hook[i].get_order : Validates(order, hook[i].v)
         THEN Goto(i, [hook[i] EXCEPT !.pays = @ + 1], "paying")
         ELSE Goto(i, [hook[i] EXCEPT !.res = "invalid"], "log_res")

\* Second half of validate_and_pay(): the payment call returns, Ok or Err.
Pay(i, ok) ==
    /\ hook[i].pc = "paying"
    /\ Goto(i, [hook[i] EXCEPT !.res = IF ok THEN "paid" ELSE "pay_failed"], "log_res")

\* The end of the hook with the error of validate_and_pay propagated.
LogResPropagating(i) ==
    /\ hook[i].pc = "log_res"
    /\ Return(i, [hook[i] EXCEPT
                    !.result = IF hook[i].res = "paid" THEN "continue" ELSE "error"])

\* The end of the hook with the paid order removed from the registry.
LogResRemoving(i) ==
    /\ hook[i].pc = "log_res"
    /\ hook' = [hook EXCEPT ![i] = [hook[i] EXCEPT !.pc = "done", !.result = "continue"]]
    /\ dataLock' = dataLock \ {i}
    /\ methodLock' = methodLock \ {i}
    /\ data' = [k \in DOMAIN data \ {hook[i].v.tail.id} |-> data[k]]
    /\ UNCHANGED method

\* Lines 147-162: the outcome is logged and the hook returns "continue".
LogRes(i) ==
    /\ hook[i].pc = "log_res"
    /\ Return(i, [hook[i] EXCEPT !.result = "continue"])

(* ------------------------------ issuance ------------------------------- *)

\* The buy-inbound-channel command records the order it requests under the
\* lock of data ...
InsertOrder(id, terms) ==
    /\ dataLock = {}
    /\ data' = [k \in DOMAIN data \cup {id} |-> IF k = id THEN terms ELSE data[k]]
    /\ UNCHANGED <<method, dataLock, methodLock, hook>>

\* ... and the method it issued under the lock of method.
SetMethod(name) ==
    /\ methodLock = {}
    /\ method' = [k \in {MethodKey} |-> name]
    /\ UNCHANGED <<data, dataLock, methodLock, hook>>

(* --------------------------- the specification ------------------------- *)

Next ==
    \/ \E i \in Invs, e \in Events : Deliver(i, e)
    \/ \E i \in Invs : LockData(i)
    \/ \E i \in Invs : LockMethod(i)
    \/ \E i \in Invs : Frame(i)
    \/ \E i \in Invs, ok \in BOOLEAN : Connect(i, ok)
    \/ \E i \in Invs : Classify(i)
    \/ \E i \in Invs : Validate(i)
    \/ \E i \in Invs, ok \in BOOLEAN : Pay(i, ok)
    \/ \E i \in Invs : LogRes(i)
    \/ \E id \in Ids, terms \in Terms : InsertOrder(id, terms)
    \/ \E name \in Methods : SetMethod(name)

Spec == Init /\ [][Next]_vars

\* One invocation at a time, on every event of FramerEvents.
NextFramer ==
    \/ \E e \in FramerEvents : Deliver(1, e)
    \/ LockData(1)
    \/ LockMethod(1)
    \/ Frame(1)
    \/ \E ok \in BOOLEAN : Connect(1, ok)
    \/ Classify(1)
    \/ Validate(1)
    \/ \E ok \in BOOLEAN : Pay(1, ok)
    \/ LogRes(1)
    \/ \E id \in Ids, terms \in Terms : InsertOrder(id, terms)
    \/ \E name \in Methods : SetMethod(name)

SpecFramer == Init /\ [][NextFramer]_vars

\* The events of the fair specification, which between them take every way
\* out of the hook: no payload, another type, and an order response (that
\* fails to connect, is gated, is not registered, is rejected or is paid,
\* as the registry, lastMethod and the node have it).
LiveEvents ==
    {NoPayload,
     Payload(<<"0", "1", "0", "0">>, OrderTail("abc", "size100000", FALSE)),
     Payload(<<"0", "0", "0", "1">>, OrderTail("abc", "size100000", FALSE))}

\* One step of invocation i: the runtime polls the future of the hook, which
\* advances to its next suspension point or returns.
Step(i) ==
    \/ LockData(i)
    \/ LockMethod(i)
    \/ Frame(i)
    \/ \E ok \in BOOLEAN : Connect(i, ok)
    \/ Classify(i)
    \/ Validate(i)
    \/ \E ok \in BOOLEAN : Pay(i, ok)
    \/ LogRes(i)

NextFair ==
    \/ \E i \in Invs, e \in LiveEvents : Deliver(i, e)
    \/ \E i \in Invs : Step(i)
    \/ \E id \in Ids, terms \in Terms : InsertOrder(id, terms)
    \/ \E name \in Methods : SetMethod(name)

\* The runtime is fair to every task that can run, a released lock is
\* handed to a waiting task, and the connection attempt and the payment
\* call return: a step of an invocation that stays possible is taken.
SpecFair == Init /\ [][NextFair]_vars /\ \A i \in Invs : WF_vars(Step(i))

(* ------------------------- vocabulary of the claims -------------------- *)

\* The last method issued, "unset" before any.
LastMethod == IF MethodKey \in DOMAIN method THEN method[MethodKey] ELSE "unset"

\* Invocation i returns in this step.
Returns(i) == hook[i].pc # "done" /\ hook'[i].pc = "done"

\* The head is four hex digits: the two bytes of a type.
HeadIsType(p) == Len(p.head) = 4 /\ \A k \in 1..4 : p.head[k] \in HexChars

\* Those two bytes read as a big-endian uint16.
TypeOf(p) ==
    4096 * HexVal(p.head[1]) + 256 * HexVal(p.head[2])
        + 16 * HexVal(p.head[3]) + HexVal(p.head[4])

\* A message of the registered type whose text is hex throughout.
RegisteredType(p) ==
    /\ p.has_payload
    /\ HeadIsType(p)
    /\ p.tail.kind # "badhex"
    /\ TypeOf(p) = MESSAGE_TYPE

\* A registered-type message whose body decodes as an order response.
OrderResponse(p) == RegisteredType(p) /\ p.tail.kind = "json" /\ p.tail.order

\* A payload that is missing, is not hex, or holds fewer than 2 bytes.
Malformed(p) ==
    \/ ~p.has_payload
    \/ Len(p.head) % 2 = 1
    \/ \E k \in 1..Len(p.head) : p.head[k] \notin HexChars
    \/ p.tail.kind = "badhex"
    \/ Len(p.head) < 4 /\ p.tail.kind = "empty"

\* A hex payload of 2 bytes or more whose type is not the registered one.
WrongType(p) ==
    /\ p.has_payload
    /\ HeadIsType(p)
    /\ p.tail.kind # "badhex"
    /\ TypeOf(p) # MESSAGE_TYPE

\* Invocation i handles an order response while the last method issued is
\* create-order ...
CreateOrderCase(i) ==
    OrderResponse(hook[i].v) /\ LastMethod = LSPS1_CREATE_ORDER_METHOD

\* ... and the registry holds its id with the terms of the response,
MatchCase(i) ==
    /\ CreateOrderCase(i)
    /\ hook[i].v.tail.id \in DOMAIN data
    /\ data[hook[i].v.tail.id] = hook[i].v.tail.terms

\* ... or with other terms,
MismatchCase(i) ==
    /\ CreateOrderCase(i)
    /\ hook[i].v.tail.id \in DOMAIN data
    /\ data[hook[i].v.tail.id] # hook[i].v.tail.terms

\* ... or does not hold its id.
AbsentCase(i) ==
    /\ CreateOrderCase(i)
    /\ hook[i].v.tail.id \notin DOMAIN data

\* Invocation i handles an order response while the last method issued is
\* not create-order.
GatedCase(i) ==
    OrderResponse(hook[i].v) /\ LastMethod # LSPS1_CREATE_ORDER_METHOD

(* -------------------------------- claims ------------------------------- *)

\* C1 (as stated): when an invocation that handles an order response of the
\* registered type returns, and lastMethod is create-order and the registry
\* holds the response's id with matching terms, it has invoked payment
\* exactly once.
C1_PaidExactlyOnce ==
    [][\A i \in Invs : Returns(i) /\ MatchCase(i) => hook'[i].pays = 1]_vars

\* C1 (amended): the same, for an invocation whose RPC connection was
\* established.
C1_PaidExactlyOnceWhenConnected ==
    [][\A i \in Invs :
          Returns(i) /\ MatchCase(i) /\ hook'[i].client = "connected"
              => hook'[i].pays = 1]_vars

C1_Witness ==
    \E i \in Invs :
        /\ hook[i].pc = "done"
        /\ MatchCase(i)
        /\ hook[i].client = "connected"
        /\ hook[i].pays = 1
        /\ hook[i].res = "paid"

\* C2 (as stated): when the id of the response is absent from the registry
\* (lastMethod being create-order), the invocation invokes no payment,
\* reports no error and returns "continue".
C2_AbsentIgnored ==
    [][\A i \in Invs :
          Returns(i) /\ AbsentCase(i)
              => /\ hook'[i].pays = 0
                 /\ hook'[i].res = "none"
                 /\ hook'[i].result = "continue"]_vars

\* C2 (amended): the same, for an invocation whose RPC connection was
\* established.
C2_AbsentIgnoredWhenConnected ==
    [][\A i \in Invs :
          Returns(i) /\ AbsentCase(i) /\ hook'[i].client = "connected"
              => /\ hook'[i].pays = 0
                 /\ hook'[i].res = "none"
                 /\ hook'[i].result = "continue"]_vars

C2_Witness ==
    \E i \in Invs :
        /\ hook[i].pc = "done"
        /\ AbsentCase(i)
        /\ data # << >>
        /\ hook[i].client = "connected"
        /\ hook[i].lookups = 1
        /\ hook[i].pays = 0
        /\ hook[i].result = "continue"

\* C3 (as stated): when the registry holds the id of the response with
\* terms other than the response's, validation fails and is reported, no
\* payment is made, nothing is retried, and the invocation returns
\* "continue".
C3_MismatchRejected ==
    [][\A i \in Invs :
          Returns(i) /\ MismatchCase(i)
              => /\ hook'[i].res = "invalid"
                 /\ hook'[i].pays = 0
                 /\ hook'[i].lookups = 1
                 /\ hook'[i].result = "continue"]_vars

\* C3 (amended): the same, for an invocation whose RPC connection was
\* established.
C3_MismatchRejectedWhenConnected ==
    [][\A i \in Invs :
          Returns(i) /\ MismatchCase(i) /\ hook'[i].client = "connected"
              => /\ hook'[i].res = "invalid"
                 /\ hook'[i].pays = 0
                 /\ hook'[i].lookups = 1
                 /\ hook'[i].result = "continue"]_vars

C3_Witness ==
    \E i \in Invs :
        /\ hook[i].pc = "done"
        /\ MismatchCase(i)
        /\ hook[i].res = "invalid"
        /\ hook[i].pays = 0
        /\ hook[i].result = "continue"

\* C4 (as stated): when lastMethod is anything but create-order (get-order,
\* or unset), an order response causes no registry lookup and no payment,
\* and the invocation returns "continue".
C4_GatedOnMethod ==
    [][\A i \in Invs :
          Returns(i) /\ GatedCase(i)
              => /\ hook'[i].lookups = 0
                 /\ hook'[i].pays = 0
                 /\ hook'[i].result = "continue"]_vars

\* C4 (amended): the same, for an invocation whose RPC connection was
\* established.
C4_GatedOnMethodWhenConnected ==
    [][\A i \in Invs :
          Returns(i) /\ GatedCase(i) /\ hook'[i].client = "connected"
              => /\ hook'[i].lookups = 0
                 /\ hook'[i].pays = 0
                 /\ hook'[i].result = "continue"]_vars

C4_Witness ==
    \E i \in Invs :
        /\ hook[i].pc = "done"
        /\ OrderResponse(hook[i].v)
        /\ LastMethod = LSPS1_GET_ORDER_METHOD
        /\ hook[i].v.tail.id \in DOMAIN data
        /\ data[hook[i].v.tail.id] = hook[i].v.tail.terms
        /\ hook[i].client = "connected"
        /\ hook[i].decodes = 3
        /\ hook[i].lookups = 0
        /\ hook[i].pays = 0
        /\ hook[i].result = "continue"

\* C5 (as stated): there is no guard against paying twice. When an
\* invocation returns from a matching create-order response that another
\* invocation has already handled with a payment attempt (paid or failed),
\* it has made a payment attempt of its own.
C5_NoDedup ==
    [][\A i \in Invs : \A j \in Invs \ {i} :
          /\ Returns(j) /\ MatchCase(j)
          /\ hook[i].pc = "done" /\ hook[i].v = hook[j].v
          /\ hook[i].pays = 1 /\ hook[i].res \in {"paid", "pay_failed"}
          => hook'[j].pays = 1 /\ hook'[i].pays = 1]_vars

\* C5 (amended): the same, for a second invocation whose RPC connection was
\* established.
C5_NoDedupWhenConnected ==
    [][\A i \in Invs : \A j \in Invs \ {i} :
          /\ Returns(j) /\ MatchCase(j) /\ hook'[j].client = "connected"
          /\ hook[i].pc = "done" /\ hook[i].v = hook[j].v
          /\ hook[i].pays = 1 /\ hook[i].res \in {"paid", "pay_failed"}
          => hook'[j].pays = 1 /\ hook'[i].pays = 1]_vars

C5_Witness ==
    \E i \in Invs : \E j \in Invs \ {i} :
        /\ hook[i].pc = "done" /\ hook[j].pc = "done"
        /\ hook[i].v = hook[j].v
        /\ MatchCase(j)
        /\ hook[i].pays = 1 /\ hook[i].res = "paid"
        /\ hook[j].pays = 1 /\ hook[j].res \in {"paid", "pay_failed"}

\* C6: an invocation whose payload is missing, is not hex or holds fewer
\* than 2 bytes changes neither the registry nor lastMethod in any of its
\* steps, attempts no RPC connection, invokes no payment, and returns
\* "continue".
C6_MalformedPassesThrough ==
    [][\A i \in Invs :
          hook'[i] # hook[i] /\ Malformed(hook'[i].v)
              => /\ data' = data /\ method' = method
                 /\ hook'[i].rpc = 0
                 /\ hook'[i].pays = 0
                 /\ hook'[i].result = IF hook'[i].pc = "done" THEN "continue" ELSE "none"]_vars

C6_Witness ==
    \E i \in Invs :
        /\ hook[i].pc = "done" /\ hook[i].result = "continue"
        /\ hook[i].v.has_payload
        /\ Len(hook[i].v.head) = 4
        /\ \E k \in 1..4 : hook[i].v.head[k] \notin HexChars
        /\ hook[i].v.tail.order
        /\ LastMethod = LSPS1_CREATE_ORDER_METHOD
        /\ hook[i].v.tail.id \in DOMAIN data
        /\ data[hook[i].v.tail.id] = hook[i].v.tail.terms

\* C7: an invocation whose payload carries another type than the registered
\* one attempts no JSON decode and no RPC connection, invokes no payment and
\* returns "continue", whatever its body.
C7_WrongTypePassesThrough ==
    \A i \in Invs :
        WrongType(hook[i].v)
            => /\ hook[i].decodes = 0
               /\ hook[i].rpc = 0
               /\ hook[i].pays = 0
               /\ hook[i].pc \in {"idle", "lock_data", "lock_method", "frame", "done"}
               /\ hook[i].result = IF hook[i].pc = "done" THEN "continue" ELSE "none"

C7_Witness ==
    \E i \in Invs :
        /\ hook[i].pc = "done"
        /\ WrongType(hook[i].v)
        /\ hook[i].v.tail.order
        /\ LastMethod = LSPS1_CREATE_ORDER_METHOD
        /\ hook[i].v.tail.id \in DOMAIN data
        /\ data[hook[i].v.tail.id] = hook[i].v.tail.terms
        /\ hook[i].result = "continue"

\* C8 (as stated): every invocation that returns returns "continue".
C8_AlwaysContinue ==
    \A i \in Invs : hook[i].pc = "done" => hook[i].result = "continue"

\* C8 (amended): every invocation that returns returns "continue", except
\* one whose RPC connection could not be established, which returns the
\* error.
C8_ContinueUnlessConnectFails ==
    \A i \in Invs :
        hook[i].pc = "done"
            => \/ hook[i].result = "continue" /\ hook[i].client # "failed"
               \/ hook[i].result = "error" /\ hook[i].client = "failed"

C8_Witness ==
    \E i \in Invs : \E j \in Invs \ {i} :
        /\ hook[i].pc = "done" /\ hook[i].res = "pay_failed"
        /\ hook[i].result = "continue"
        /\ hook[j].pc = "done" /\ hook[j].client = "failed"
        /\ hook[j].result = "error"

\* C9: no step of an invocation changes the registry or lastMethod, and no
\* step at all removes an order id from the registry.
C9_HookNeverMutates ==
    [][/\ hook' # hook => data' = data /\ method' = method
       /\ DOMAIN data \subseteq DOMAIN data'
       /\ DOMAIN method \subseteq DOMAIN method']_vars

C9_Witness ==
    \E i \in Invs : \E j \in Invs \ {i} :
        /\ hook[i].pc = "done" /\ hook[i].res = "paid"
        /\ hook[j].pc = "done" /\ hook[j].res = "invalid"
        /\ hook[i].v.tail.id \in DOMAIN data
        /\ hook[j].v.tail.id \in DOMAIN data

\* The invocations past the acquisition of both locks.
PastLocks ==
    {i \in Invs : hook[i].pc \in {"frame", "connect", "classify", "validate_and_pay",
                                   "paying", "log_res"}}

\* C10: invocations are serialized. Each lock has at most one holder, an
\* invocation past lock acquisition holds both locks until it returns, at
\* most one invocation is past lock acquisition and at most one payment
\* call is in flight.
C10_Serialized ==
    /\ Cardinality(dataLock) <= 1
    /\ Cardinality(methodLock) <= 1
    /\ \A i \in PastLocks : i \in dataLock /\ i \in methodLock
    /\ \A i \in Invs : hook[i].pc \in {"idle", "lock_data", "done"} => i \notin dataLock
    /\ \A i \in Invs : i \in methodLock => i \in PastLocks
    /\ Cardinality(PastLocks) <= 1
    /\ Cardinality({i \in Invs : hook[i].pc = "paying"}) <= 1

C10_Witness ==
    \E i \in Invs : \E j \in Invs \ {i} :
        /\ hook[i].pc = "paying"
        /\ hook[j].pc = "lock_data"
        /\ OrderResponse(hook[j].v)
        /\ hook[j].v.tail.id # hook[i].v.tail.id

\* Invocation i handles an order response whose id the registry holds with
\* the terms of the response (whatever the last method issued).
RegisteredMatch(i) ==
    /\ OrderResponse(hook[i].v)
    /\ hook[i].v.tail.id \in DOMAIN data
    /\ data[hook[i].v.tail.id] = hook[i].v.tail.terms

\* C11: lastMethod is one slot for all orders. When an invocation with an
\* established connection returns from an order response that is registered
\* and matches, it has entered validate-and-pay (and paid) exactly when the
\* slot holds create-order at that time, whichever request the response
\* answers: the response to a create-order is not paid once get-order has
\* been issued, and under create-order any order response is validated and
\* paid.
C11_OneGlobalSlotDecides ==
    [][\A i \in Invs :
          Returns(i) /\ RegisteredMatch(i) /\ hook'[i].client = "connected"
              => IF LastMethod = LSPS1_CREATE_ORDER_METHOD
                   THEN hook'[i].lookups = 1 /\ hook'[i].pays = 1
                   ELSE hook'[i].lookups = 0 /\ hook'[i].pays = 0]_vars

\* The same response, paid by one invocation (create-order was the last
\* method when it ran) and not paid by another, get-order being the last
\* method issued.
C11_Witness ==
    \E i \in Invs : \E j \in Invs \ {i} :
        /\ hook[i].pc = "done" /\ hook[i].res = "paid"
        /\ hook[j].pc = "done" /\ hook[j].v = hook[i].v
        /\ RegisteredMatch(j)
        /\ LastMethod = LSPS1_GET_ORDER_METHOD
        /\ hook[j].client = "connected"
        /\ hook[j].decodes = 3
        /\ hook[j].lookups = 0
        /\ hook[j].pays = 0
        /\ hook[j].result = "continue"

\* A payload the framer passes through.
PassedThrough(p) == Malformed(p) \/ WrongType(p)

\* C12 (as stated): an invocation whose message the framer passes through
\* takes neither lock and never waits for one.
C12_FramerTakesNoLock ==
    \A i \in Invs :
        PassedThrough(hook[i].v)
            => /\ i \notin dataLock
               /\ i \notin methodLock
               /\ ~(hook[i].pc = "lock_data" /\ dataLock # {})

\* C12 (amended): the framer reads neither the registry nor lastMethod and
\* decodes nothing, but it runs under both locks: an invocation whose
\* message is passed through leaves line 66 only when the lock of data is
\* free, and returns from the framer holding both locks, which it releases.
C12_FramerRunsUnderLocks ==
    [][\A i \in Invs :
          PassedThrough(hook[i].v)
              => /\ hook[i].pc = "lock_data" /\ hook'[i].pc # "lock_data"
                     => dataLock = {} /\ hook'[i].pc = "lock_method"
                 /\ Returns(i)
                     => /\ hook[i].pc = "frame"
                        /\ i \in dataLock /\ i \in methodLock
                        /\ i \notin dataLock' /\ i \notin methodLock'
                        /\ data' = data /\ method' = method
                        /\ hook'[i].decodes = 0
                        /\ hook'[i].result = "continue"]_vars

\* A malformed message waits for the locks that another invocation holds
\* during its payment call.
C12_Witness ==
    \E i \in Invs : \E j \in Invs \ {i} :
        /\ hook[i].pc = "paying"
        /\ dataLock = {i} /\ methodLock = {i}
        /\ hook[j].pc = "lock_data"
        /\ Malformed(hook[j].v)

\* C13: an invocation attempts the RPC connection exactly when its message
\* has the registered type (once, and before any decode); it returns an
\* error exactly when that connection fails; with the connection
\* established it returns "continue" whether the body fails to decode, the
\* id is not registered, validation fails or the payment fails.
C13_OnlyConnectFailureEscapes ==
    \A i \in Invs :
        /\ hook[i].rpc > 0 => RegisteredType(hook[i].v) /\ hook[i].rpc = 1
        /\ hook[i].decodes > 0 => hook[i].client = "connected"
        /\ hook[i].pc = "done"
            => /\ hook[i].rpc = (IF RegisteredType(hook[i].v) THEN 1 ELSE 0)
               /\ hook[i].result = "error" <=> hook[i].client = "failed"
               /\ hook[i].result = "continue" <=> hook[i].client # "failed"
               /\ hook[i].client = "connected"
                   => /\ hook[i].result = "continue"
                      /\ hook[i].res \in {"none", "invalid", "paid", "pay_failed"}

\* One invocation returned the error of a failed connection; another, its
\* connection established, returned "continue" after a failed validation.
C13_Witness ==
    \E i \in Invs : \E j \in Invs \ {i} :
        /\ hook[i].pc = "done" /\ hook[i].client = "failed"
        /\ hook[i].result = "error" /\ hook[i].decodes = 0
        /\ hook[j].pc = "done" /\ hook[j].client = "connected"
        /\ hook[j].res = "invalid" /\ hook[j].result = "continue"

C15_PaymentPreconditions ==
    \A i \in Invs :
        /\ hook[i].pays <= 1
        /\ hook[i].res = "invalid" => hook[i].pays = 0
        /\ hook[i].res \in {"paid", "pay_failed"} => hook[i].pays = 1
        /\ hook[i].lookups > 0
              => hook[i].decodes = 3 /\ hook[i].lookups = 1 /\ OrderResponse(hook[i].v)
        /\ hook[i].decodes > 0
              => hook[i].rpc = 1 /\ hook[i].client = "connected" /\ RegisteredType(hook[i].v)
        /\ hook[i].get_order # {} => hook[i].lookups = 1
        /\ hook[i].pays > 0
              => /\ hook[i].pc \in {"paying", "log_res", "done"}
                 /\ hook[i].get_order = {hook[i].v.tail.terms}
                 /\ hook[i].v.tail.id \in Ids
                 /\ hook[i].v.tail.id \in DOMAIN data
        /\ hook[i].pc \in {"validate_and_pay", "paying", "log_res"}
              => /\ LastMethod = LSPS1_CREATE_ORDER_METHOD
                 /\ hook[i].v.tail.id \in DOMAIN data
                 /\ hook[i].get_order = {data[hook[i].v.tail.id]}
                 /\ i \in dataLock /\ i \in methodLock

\* One invocation has paid the order it validated; the other has rejected
\* a response with other terms and has paid nothing.
C15_Witness ==
    \E i \in Invs : \E j \in Invs \ {i} :
        /\ hook[i].pc = "log_res" /\ hook[i].pays = 1 /\ hook[i].res = "paid"
        /\ hook[i].get_order = {hook[i].v.tail.terms}
        /\ hook[j].pc = "done" /\ hook[j].res = "invalid" /\ hook[j].pays = 0
        /\ hook[j].lookups = 1 /\ hook[j].get_order # {hook[j].v.tail.terms}

\* C16: classification and payment are atomic with respect to issuance.
\* While an invocation is past the acquisition of the locks no step writes
\* the registry or lastMethod; so from the read of lastMethod to the return
\* of the payment call lastMethod stays create-order and the order looked
\* up stays the one registered under the id of the response.
C16_AtomicWithIssuance ==
    [][\A i \in Invs :
          /\ i \in PastLocks => data' = data /\ method' = method
          /\ hook[i].pc \in {"validate_and_pay", "paying"}
                => /\ hook'[i].pc \in {"validate_and_pay", "paying", "log_res"}
                   /\ LastMethod' = LSPS1_CREATE_ORDER_METHOD
                   /\ hook'[i].get_order = {data'[hook[i].v.tail.id]}]_vars

\* The payment call of an invocation has returned (here with an error) and
\* the invocation still holds both locks: through validation and payment
\* lastMethod and the order are those it read, and no issuance step can be
\* taken.
C16_Witness ==
    \E i \in Invs :
        /\ hook[i].pc = "log_res" /\ hook[i].res = "pay_failed"
        /\ dataLock = {i} /\ methodLock = {i}
        /\ LastMethod = LSPS1_CREATE_ORDER_METHOD
        /\ hook[i].get_order = {data[hook[i].v.tail.id]}
        /\ ~ENABLED (\E id \in Ids, terms \in Terms : InsertOrder(id, terms))
        /\ ~ENABLED (\E name \in Methods : SetMethod(name))

\* C17: invocations do not deadlock and release their locks. The lock of
\* method is taken by the holder of the lock of data only, so an invocation
\* that waits for it finds it free; a held lock has a holder that is still
\* running; an invocation that has returned, by whichever exit, holds no
\* lock. Under fair scheduling every delivered message is dispositioned and
\* every invocation that waits for the locks acquires both.
C17_NoDeadlockLocksReleased ==
    /\ [](\A i \in Invs :
            /\ i \in methodLock => i \in dataLock
            /\ i \in dataLock => hook[i].pc \in {"lock_method"} \/ i \in PastLocks
            /\ hook[i].pc = "lock_method" => methodLock = {}
            /\ hook[i].pc = "done"
                  => /\ i \notin dataLock /\ i \notin methodLock
                     /\ hook[i].result \in {"continue", "error"})
    /\ \A i \in Invs :
          /\ hook[i].pc = "lock_data" ~> i \in methodLock
          /\ hook[i].pc = "lock_data" ~> hook[i].pc = "done"

\* An invocation waits for the locks that another one holds during its
\* connection attempt: both are still to be dispositioned.
C17_Witness ==
    \E i \in Invs : \E j \in Invs \ {i} :
        /\ hook[i].pc = "connect" /\ dataLock = {i} /\ methodLock = {i}
        /\ hook[j].pc = "lock_data"

====
